---- MODULE Spec2Model ----
(***************************************************************************)
(* Model of the pyHMSSQL geo-routing sidecar (rustcore/geo_sidecar):       *)
(* the routing engine (routing.rs), the geo resolver (geo.rs), the metrics *)
(* collector (metrics.rs) and the connection loop (main.rs), and of the    *)
(* hybrid logical clock (rustcore/hlc).                                    *)
(*                                                                         *)
(* Spec        : one owner of a RoutingEngine calling update_replicas and  *)
(*               route_request (the library API of routing.rs).            *)
(* SpecServer  : connection handlers sharing Arc<RwLock<RoutingEngine>>    *)
(*               and Arc<MetricsCollector> (main.rs).                      *)
(* SpecMetrics : threads calling MetricsCollector::record_request, one     *)
(*               atomic operation per step (metrics.rs).                   *)
(* SpecLoop    : SpecServer with one connection only.                      *)
(* SpecConn    : the listeners, the tasks they spawn and the periodic      *)
(*               sweep of active_connections (main.rs); SpecConnFair adds  *)
(*               fairness for the end of a spawned task.                   *)
(* SpecHlc     : one HybridLogicalClock (rustcore/hlc) used from one       *)
(*               thread; SpecHlcNow calls now only.                        *)
(*                                                                         *)
(* f64 scores are modelled by integers (kilometres); the inputs are chosen *)
(* so that every score the code computes is an exact integer.              *)
(***************************************************************************)
EXTENDS Integers, Sequences, FiniteSets, TLC

VARIABLES
    \* RoutingEngine (routing.rs:39-42)
    replicas,            \* DashMap<String, ReplicaInfo>: node_id -> ReplicaInfo
    zone_replicas,       \* DashMap<String, Vec<String>>: zone -> sequence of node_ids
    \* the update_replicas call in progress (at most one: it takes &mut self)
    upd_pc,              \* "none" | "clear_zones" | "loop"
    upd_count,           \* elements of the input list consumed so far
    \* the caller of the library API (Spec)
    call,                \* the last API call and its result
    \* connection handlers (main.rs:261-347)
    pc,                  \* position of each handle_connection loop
    req,                 \* the request frame being processed
    response,            \* the SidecarResponse built for it
    rw_writer,           \* holder of the RwLock write guard, or NoConn
    rw_readers,          \* holders of RwLock read guards
    unanswered,          \* request frames read whose response is not yet flushed
    upd_input,           \* history: the replicas the last update_replicas call was given
    frame_len,           \* the local `length` of a frame whose body is being read
    conn_result,         \* the error handle_connection returned, or NoResult
    \* MetricsCollector (metrics.rs:17-24)
    total_requests,
    successful_requests,
    failed_requests,
    total_latency_micros,
    min_latency_micros,
    max_latency_micros,
    \* threads inside record_request (SpecMetrics)
    rec_pc,              \* position of each thread in record_request
    rec_args,            \* its arguments (latency_micros, success)
    rec_cur,             \* its local current_min / current_max
    recorded,            \* history: the record_request calls started and returned
    \* the connection manager (main.rs:112, 156-258)
    active_connections,  \* DashMap<String, SystemTime>: connection_id -> record
    now,                 \* the reading of SystemTime::now(), in seconds
    task,                \* position of the task spawned for each client connection
    conn_id,             \* the connection_id the listener gave it
    last_step,           \* history: the step just done, with the map before it
    \* HybridLogicalClock (hlc/src/lib.rs:12-15)
    logical_counter,
    last_physical,
    overflow_checks,     \* the build panics on integer overflow (debug) or wraps (release)
    hlc_last,            \* history: the last call of now or update and what it returned
    hlc_max,             \* history: the greatest timestamp returned before that call
    hlc_calls,           \* history: the calls made so far
    \* handle_connection (main.rs:260-308)
    dispatched,          \* history: the request frames read completely so far
    \* a thread inside get_snapshot (metrics.rs:76-104)
    snap_pc,             \* the load it does next
    snap_loaded,         \* the values it has loaded so far
    snapshot,            \* the MetricsSnapshot its last call returned, if any
    \* threads inside HybridLogicalClock::now (hlc/src/lib.rs:34-55)
    now_pc,              \* position of each thread in now
    now_local,           \* its locals physical_now and last_physical
    now_before,          \* history: the timestamps returned before its call started
    now_returned,        \* history: the timestamps returned so far
    now_ret              \* history: the call that returned last

engineVars  == <<replicas, zone_replicas, upd_pc, upd_count>>
apiVars     == <<call>>
serverVars  == <<pc, req, response, rw_writer, rw_readers, unanswered, upd_input,
                 frame_len, conn_result>>
metricsVars == <<total_requests, successful_requests, failed_requests,
                 total_latency_micros, min_latency_micros, max_latency_micros>>
recVars     == <<rec_pc, rec_args, rec_cur, recorded>>
connVars    == <<active_connections, now, task, conn_id, last_step>>
hlcVars     == <<logical_counter, last_physical, overflow_checks, hlc_last, hlc_max,
                 hlc_calls>>
histVars    == <<dispatched>>
snapVars    == <<snap_pc, snap_loaded, snapshot>>
nowVars     == <<now_pc, now_local, now_before, now_returned, now_ret>>
extVars     == <<snapVars, nowVars>>
otherVars   == <<connVars, hlcVars, histVars, extVars>>
vars == <<engineVars, apiVars, serverVars, metricsVars, recVars, otherVars>>

-----------------------------------------------------------------------------
(* Bounds and input sets *)

\* longest replica list handed to update_replicas
MaxReplicas == 2

\* record_request calls started in SpecMetrics
MaxRecords == 3

\* request frames the connection handlers of SpecServer read in all
MaxRequests == 3

\* args.max_connections (--max-connections) in SpecConn
MaxConnections == 1

\* calls of now and update made on the clock of SpecHlc and SpecHlcNow
MaxHlcCalls == 5

NodeIds == {"n1", "n2"}
Zones == {"z1", "z2"}
ClientIps == {"10.0.0.1", "203.0.113.7"}
QueryTypes == {"read", "write", "scan"}

-----------------------------------------------------------------------------
(* geo.rs *)

GeoLocation(lat, lon) == [latitude |-> lat, longitude |-> lon]

\* impl Default for GeoLocation: (0.0, 0.0)
DefaultLocation == GeoLocation(0, 0)

\* a location two degrees east of the default one, on the equator
EastLocation == GeoLocation(0, 2)

Locations == {DefaultLocation, EastLocation}

\* the GeoIP database behind GeoResolver.reader: the addresses it knows
GeoDb == [ip \in {"203.0.113.7"} |-> EastLocation]

\* GeoResolver::resolve: the database's location, else the default; never an error
Resolve(ip) == IF ip \in DOMAIN GeoDb THEN GeoDb[ip] ELSE DefaultLocation

EARTH_RADIUS_KM == 6371

Abs(x) == IF x < 0 THEN -x ELSE x

\* haversine_distance for two points on the same meridian or both on the equator,
\* where a = sin^2(d/2) and c = 2*atan2(sqrt a, sqrt(1-a)) = d (the angle between
\* them in radians): EARTH_RADIUS_KM * d, in whole kilometres (pi ~ 31416/10000).
haversine_distance(lat1, lon1, lat2, lon2) ==
    LET deg == IF lon1 = lon2 THEN Abs(lat2 - lat1) ELSE Abs(lon2 - lon1)
    IN  (EARTH_RADIUS_KM * 31416 * deg) \div (180 * 10000)

\* GeoResolver::calculate_distance
calculate_distance(loc1, loc2) ==
    haversine_distance(loc1.latitude, loc1.longitude, loc2.latitude, loc2.longitude)

-----------------------------------------------------------------------------
(* routing.rs: data *)

\* ReplicaInfo values handed to the library API (host and port are carried
\* through unchanged by the code and are left out)
ReplicaInfos ==
    [node_id : NodeIds, is_leader : BOOLEAN, healthy : BOOLEAN, zone : Zones,
     geo_location : Locations, load_score : {0, 1}, latency_ms : {0, 50}]

EmptyMap == [k \in {} |-> k]

ERR_NO_HEALTHY_REPLICAS == "No healthy replicas available"
ERR_NO_HEALTHY_LEADERS == "No healthy leaders available"
ERR_SELECT_LEADER == "Failed to select leader"
ERR_SELECT_REPLICA == "Failed to select replica"

Ok(v) == [ok |-> TRUE, value |-> v]
Err(e) == [ok |-> FALSE, error |-> e]

-----------------------------------------------------------------------------
(* routing.rs: update_replicas *)

\* self.replicas.insert(node_id, replica): a later entry replaces an earlier one
ReplicasInsert(reps, r) == (r.node_id :> r) @@ reps

\* self.zone_replicas.entry(zone).or_insert_with(Vec::new).push(node_id)
ZonePush(zones, r) ==
    IF r.zone \in DOMAIN zones
    THEN [zones EXCEPT ![r.zone] = Append(@, r.node_id)]
    ELSE (r.zone :> <<r.node_id>>) @@ zones

\* mutant: the primary map is not cleared
EngClearReplicasSkip ==
    /\ upd_pc = "none"
    /\ upd_pc' = "clear_zones"
    /\ upd_count' = 0
    /\ UNCHANGED <<replicas, zone_replicas>>

\* self.replicas.clear()
EngClearReplicas ==
    /\ upd_pc = "none"
    /\ replicas' = EmptyMap
    /\ upd_pc' = "clear_zones"
    /\ upd_count' = 0
    /\ UNCHANGED zone_replicas

\* mutant: the zone index is not cleared
EngClearZonesSkip ==
    /\ upd_pc = "clear_zones"
    /\ upd_pc' = "loop"
    /\ UNCHANGED <<replicas, zone_replicas, upd_count>>

\* self.zone_replicas.clear()
EngClearZones ==
    /\ upd_pc = "clear_zones"
    /\ zone_replicas' = EmptyMap
    /\ upd_pc' = "loop"
    /\ UNCHANGED <<replicas, upd_count>>

\* one iteration of `for replica in replicas`
EngInsert(r) ==
    /\ upd_pc = "loop"
    /\ replicas' = ReplicasInsert(replicas, r)
    /\ zone_replicas' = ZonePush(zone_replicas, r)
    /\ upd_count' = upd_count + 1
    /\ UNCHANGED upd_pc

\* the loop is over: Ok(())
EngReturn ==
    /\ upd_pc = "loop"
    /\ upd_pc' = "none"
    /\ UNCHANGED <<replicas, zone_replicas, upd_count>>

\* the table update_replicas(list) builds, as one value
RECURSIVE BuildReplicas(_)
BuildReplicas(list) ==
    IF list = <<>> THEN EmptyMap
    ELSE ReplicasInsert(BuildReplicas(SubSeq(list, 1, Len(list) - 1)), list[Len(list)])

RECURSIVE BuildZones(_)
BuildZones(list) ==
    IF list = <<>> THEN EmptyMap
    ELSE ZonePush(BuildZones(SubSeq(list, 1, Len(list) - 1)), list[Len(list)])

-----------------------------------------------------------------------------
(* routing.rs: route_request *)

\* the orders in which DashMap::iter can yield the entries of a map: the order
\* follows the hashes of the keys under a per-map random state
IterOrders(m) ==
    {o \in [1..Cardinality(DOMAIN m) -> DOMAIN m] :
        \A i, j \in 1..Cardinality(DOMAIN m) : i # j => o[i] # o[j]}

IsHealthy(r) == r.healthy
IsLeader(r) == r.is_leader

\* mutant: the healthy filter is dropped
HealthyReplicasUnfiltered(reps, order) == [i \in 1..Len(order) |-> reps[order[i]]]

\* self.replicas.iter().filter(|e| e.value().healthy).map(clone).collect()
HealthyReplicas(reps, order) ==
    SelectSeq([i \in 1..Len(order) |-> reps[order[i]]], IsHealthy)

\* f64::partial_cmp(..).unwrap_or(Equal) on finite scores
CmpScore(a, b) == IF a < b THEN "Less" ELSE IF a > b THEN "Greater" ELSE "Equal"

\* Iterator::min_by: fold keeping the earlier element unless the later one is
\* strictly smaller; returns the index of the element kept
RECURSIVE MinByFrom(_, _, _)
MinByFrom(scores, best, i) ==
    IF i > Len(scores) THEN best
    ELSE MinByFrom(scores,
                   IF CmpScore(scores[best], scores[i]) = "Greater" THEN i ELSE best,
                   i + 1)

MinBy(scores) == MinByFrom(scores, 1, 2)

\* mutant: the latency takes the place of the load in the leader score
LeaderScoreByLatency(r, client_location) ==
    calculate_distance(client_location, r.geo_location) + r.latency_ms

\* score of select_best_leader: distance plus 100 km per load unit
LeaderScore(r, client_location) ==
    calculate_distance(client_location, r.geo_location) + r.load_score * 100

\* mutant: the leader bonus is left out of the score
ReplicaScoreNoBonus(r, client_location) ==
    calculate_distance(client_location, r.geo_location) + r.load_score * 100
        + r.latency_ms

\* score of select_best_replica: distance, load, latency and a 50 km leader bonus
ReplicaScore(r, client_location) ==
    calculate_distance(client_location, r.geo_location) + r.load_score * 100
        + r.latency_ms + (IF r.is_leader THEN -50 ELSE 0)

\* mutant: the leader filter is dropped
select_best_leader_unfiltered(candidates, client_location) ==
    LET scores == [i \in 1..Len(candidates) |->
                      LeaderScore(candidates[i], client_location)]
    IN  IF candidates = <<>> THEN Err(ERR_NO_HEALTHY_LEADERS)
        ELSE Ok(candidates[MinBy(scores)])

select_best_leader(candidates, client_location) ==
    LET leaders == SelectSeq(candidates, IsLeader)
        scores == [i \in 1..Len(leaders) |-> LeaderScore(leaders[i], client_location)]
    IN  IF leaders = <<>> THEN Err(ERR_NO_HEALTHY_LEADERS)
        ELSE Ok(leaders[MinBy(scores)])

\* mutant: reads are served by leaders only
select_best_replica_leaders(candidates, client_location) ==
    LET leaders == SelectSeq(candidates, IsLeader)
        scores == [i \in 1..Len(leaders) |->
                      ReplicaScore(leaders[i], client_location)]
    IN  IF leaders = <<>> THEN Err(ERR_NO_HEALTHY_LEADERS)
        ELSE Ok(leaders[MinBy(scores)])

select_best_replica(candidates, client_location) ==
    LET scores == [i \in 1..Len(candidates) |->
                      ReplicaScore(candidates[i], client_location)]
    IN  IF candidates = <<>> THEN Err(ERR_SELECT_REPLICA)
        ELSE Ok(candidates[MinBy(scores)])

\* mutant: every request is taken for a write
IsWriteAlways(query_type) == TRUE

\* request.query_type == "write"
IsWrite(query_type) == query_type = "write"

\* mutant: the is_empty check on the healthy replicas is dropped
route_request_unchecked(reps, request, order) ==
    LET client_location == Resolve(request.client_ip)
        healthy_replicas == HealthyReplicas(reps, order)
        selected == IF IsWrite(request.query_type)
                    THEN select_best_leader(healthy_replicas, client_location)
                    ELSE select_best_replica(healthy_replicas, client_location)
    IN  IF ~selected.ok THEN selected
        ELSE Ok([node_id |-> selected.value.node_id,
                 distance_km |-> calculate_distance(client_location,
                                                    selected.value.geo_location),
                 routing_strategy |-> "closest_healthy"])

\* RoutingEngine::route_request on the map `reps` iterated in `order`
route_request(reps, request, order) ==
    LET client_location == Resolve(request.client_ip)
        healthy_replicas == HealthyReplicas(reps, order)
        selected == IF IsWrite(request.query_type)
                    THEN select_best_leader(healthy_replicas, client_location)
                    ELSE select_best_replica(healthy_replicas, client_location)
    IN  IF healthy_replicas = <<>> THEN Err(ERR_NO_HEALTHY_REPLICAS)
        ELSE IF ~selected.ok THEN selected
        ELSE Ok([node_id |-> selected.value.node_id,
                 distance_km |-> calculate_distance(client_location,
                                                    selected.value.geo_location),
                 routing_strategy |-> "closest_healthy"])

RoutingRequests == [client_ip : ClientIps, query_type : QueryTypes]

-----------------------------------------------------------------------------
(* metrics.rs *)

\* u64::MAX; the AtomicU64 counters are modelled three bits wide
U64_MAX == 2^3 - 1

\* AtomicU64::fetch_add: wrapping addition
WrappingAdd(x, n) == (x + n) % (U64_MAX + 1)

Recorders == {"t1", "t2"}
Latencies == {0, 1, 2, U64_MAX}
NoArgs == [latency_micros |-> 0, success |-> FALSE]

-----------------------------------------------------------------------------
(* Spec: the library API used by one owner of the engine *)

NoConn == "none"
Conns == {"c1", "c2"}
NoRequest == [type |-> "none"]
NoResponse == [success |-> FALSE, data |-> {}, error |-> {}]
NoLength == -1
NoResult == [err |-> "none"]

InitEngine ==
    /\ replicas = EmptyMap
    /\ zone_replicas = EmptyMap
    /\ upd_pc = "none"
    /\ upd_count = 0

InitServer ==
    /\ pc = [c \in Conns |-> "read_len"]
    /\ req = [c \in Conns |-> NoRequest]
    /\ response = [c \in Conns |-> NoResponse]
    /\ rw_writer = NoConn
    /\ rw_readers = {}
    /\ unanswered = [c \in Conns |-> 0]
    /\ upd_input = <<>>
    /\ frame_len = [c \in Conns |-> NoLength]
    /\ conn_result = [c \in Conns |-> NoResult]

InitMetrics ==
    /\ total_requests = 0
    /\ successful_requests = 0
    /\ failed_requests = 0
    /\ total_latency_micros = 0
    /\ min_latency_micros = U64_MAX
    /\ max_latency_micros = 0

InitRec ==
    /\ rec_pc = <<>>
    /\ rec_args = <<>>
    /\ rec_cur = <<>>
    /\ recorded = <<>>

\* the client connections that arrive, numbered in the order they are accepted
ConnSlots == {1, 2, 3}
NoId == <<"none", "none">>
NoStep == [op |-> "none"]

InitConn ==
    /\ active_connections = EmptyMap
    /\ now = 0
    /\ task = [k \in ConnSlots |-> "none"]
    /\ conn_id = [k \in ConnSlots |-> NoId]
    /\ last_step = NoStep

\* no timestamp: below every HLCTimestamp under compare
NoTimestamp == [physical |-> -1, logical |-> -1]
NoCall == [op |-> "new", remote |-> NoTimestamp, ts |-> NoTimestamp, panicked |-> FALSE]

\* HybridLogicalClock::new
InitClock ==
    /\ logical_counter = 0
    /\ last_physical = 0

\* a clock in a release build, where integer overflow wraps
InitHlc ==
    /\ InitClock
    /\ overflow_checks = FALSE
    /\ hlc_last = NoCall
    /\ hlc_max = NoTimestamp
    /\ hlc_calls = 0

InitHist ==
    /\ dispatched = 0

NoLoads == [total |-> 0, successful |-> 0, failed |-> 0, latency |-> 0, min |-> 0]

\* no thread is inside get_snapshot
InitSnap ==
    /\ snap_pc = "load_total"
    /\ snap_loaded = NoLoads
    /\ snapshot = {}

HlcThreads == {"h1", "h2"}
NoLocals == [physical_now |-> 0, last_physical |-> 0]
NoReturn == [thread |-> "none", ts |-> [physical |-> -1, logical |-> -1],
             before |-> {}, returned |-> {}]

\* no thread is inside now
InitNowThreads ==
    /\ now_pc = [t \in HlcThreads |-> "idle"]
    /\ now_local = [t \in HlcThreads |-> NoLocals]
    /\ now_before = [t \in HlcThreads |-> {}]
    /\ now_returned = {}
    /\ now_ret = NoReturn

InitExt ==
    /\ InitSnap
    /\ InitNowThreads

Init ==
    /\ InitEngine
    /\ InitHist
    /\ InitExt
    /\ call = [op |-> "new"]
    /\ InitServer
    /\ InitMetrics
    /\ InitRec
    /\ InitConn
    /\ InitHlc

\* update_replicas is entered: self.replicas.clear()
ApiUpdateBegin ==
    /\ EngClearReplicas
    /\ call' = [op |-> "update_replicas", returned |-> FALSE]
    /\ UNCHANGED <<serverVars, metricsVars, recVars, otherVars>>

ApiUpdateClearZones ==
    /\ EngClearZones
    /\ UNCHANGED <<apiVars, serverVars, metricsVars, recVars, otherVars>>

ApiUpdateInsert ==
    /\ upd_count < MaxReplicas
    /\ \E r \in ReplicaInfos : EngInsert(r)
    /\ UNCHANGED <<apiVars, serverVars, metricsVars, recVars, otherVars>>

ApiUpdateReturn ==
    /\ EngReturn
    /\ call' = [op |-> "update_replicas", returned |-> TRUE]
    /\ UNCHANGED <<serverVars, metricsVars, recVars, otherVars>>

\* route_request(&self): not while update_replicas(&mut self) runs
ApiRoute ==
    /\ upd_pc = "none"
    /\ \E request \in RoutingRequests, order \in IterOrders(replicas) :
          call' = [op |-> "route_request", request |-> request,
                   result |-> route_request(replicas, request, order)]
    /\ UNCHANGED <<engineVars, serverVars, metricsVars, recVars, otherVars>>

Next ==
    \/ ApiUpdateBegin
    \/ ApiUpdateClearZones
    \/ ApiUpdateInsert
    \/ ApiUpdateReturn
    \/ ApiRoute

Spec == Init /\ [][Next]_vars

-----------------------------------------------------------------------------
(* Properties of route_request (Spec) *)

\* a route_request call has returned and the table is the one it read
Routed == call.op = "route_request"

HealthyNodes == {n \in DOMAIN replicas : replicas[n].healthy}
HealthyLeaders == {n \in HealthyNodes : replicas[n].is_leader}

\* C1: when the table holds a healthy leader, a write request never returns a
\* replica that is not a leader of the current table.
C1_WriteSelectsLeader ==
    (Routed /\ call.request.query_type = "write" /\ HealthyLeaders # {}
        /\ call.result.ok)
    => /\ call.result.value.node_id \in DOMAIN replicas
       /\ replicas[call.result.value.node_id].is_leader

\* a write was routed to a leader although a healthy follower scores strictly better
C1_Witness ==
    /\ Routed /\ call.request.query_type = "write" /\ call.result.ok
    /\ replicas[call.result.value.node_id].is_leader
    /\ \E n \in HealthyNodes :
          /\ ~replicas[n].is_leader
          /\ LeaderScore(replicas[n], Resolve(call.request.client_ip))
               < LeaderScore(replicas[call.result.value.node_id],
                             Resolve(call.request.client_ip))

\* C2: every successful route_request, whatever its query_type, returns the
\* node_id of a replica that is in the current table and healthy.
C2_SelectsHealthy ==
    (Routed /\ call.result.ok)
    => /\ call.result.value.node_id \in DOMAIN replicas
       /\ replicas[call.result.value.node_id].healthy

\* a request was routed while the table also held an unhealthy replica
C2_Witness ==
    /\ Routed /\ call.result.ok
    /\ replicas[call.result.value.node_id].healthy
    /\ \E n \in DOMAIN replicas : ~replicas[n].healthy

\* C4: with no healthy replica in the table (the empty table included), every
\* route_request fails with "No healthy replicas available" and selects no node.
C4_NoHealthyReplicas ==
    (Routed /\ HealthyNodes = {})
    => call.result = Err(ERR_NO_HEALTHY_REPLICAS)

\* a request failed on a table that holds replicas, none of them healthy
C4_Witness ==
    /\ Routed /\ HealthyNodes = {} /\ DOMAIN replicas = NodeIds
    /\ \E n \in NodeIds : replicas[n].is_leader
    /\ ~call.result.ok

\* C5: with a healthy replica but no healthy leader, every write fails with
\* "No healthy leaders available" and every read succeeds.
C5_NoHealthyLeaders ==
    (Routed /\ HealthyNodes # {} /\ HealthyLeaders = {})
    => /\ call.request.query_type = "write"
            => call.result = Err(ERR_NO_HEALTHY_LEADERS)
       /\ call.request.query_type = "read" => call.result.ok

\* a write failed for want of a leader although the table holds an unhealthy leader
C5_Witness ==
    /\ Routed /\ HealthyNodes # {} /\ HealthyLeaders = {}
    /\ \E n \in DOMAIN replicas : replicas[n].is_leader
    /\ call.request.query_type = "write"
    /\ call.result = Err(ERR_NO_HEALTHY_LEADERS)

\* C7: the replica returned for a request does not depend on the order in which
\* the map yields its entries: every iteration order gives the returned result.
C7_DeterministicTieBreak ==
    Routed => \A order \in IterOrders(replicas) :
                 route_request(replicas, call.request, order) = call.result

\* the score of a read candidate for the routed request: distance in km from
\* the client, load_score * 100, latency_ms, and -50 for a leader
ReadScoreOf(r) ==
    calculate_distance(Resolve(call.request.client_ip), r.geo_location)
        + r.load_score * 100 + r.latency_ms - (IF r.is_leader THEN 50 ELSE 0)

\* C20: for "read" and every other query_type that is not "write",
\* route_request returns a healthy replica of the table, leader or follower,
\* whose score distance + load_score * 100 + latency_ms + leader bonus is
\* minimal: no healthy replica has a strictly lower score.
C20_ReadSelectsMinimalScore ==
    (Routed /\ call.request.query_type # "write" /\ HealthyNodes # {})
    => /\ call.result.ok
       /\ call.result.value.node_id \in HealthyNodes
       /\ \A n \in HealthyNodes :
              ReadScoreOf(replicas[call.result.value.node_id])
                  <= ReadScoreOf(replicas[n])

\* a scan request was given a follower although a healthy leader was in the
\* table: the leader's score is higher in spite of its bonus
C20_Witness ==
    /\ Routed /\ call.request.query_type = "scan" /\ call.result.ok
    /\ ~replicas[call.result.value.node_id].is_leader
    /\ \E n \in HealthyLeaders :
          ReadScoreOf(replicas[n]) > ReadScoreOf(replicas[call.result.value.node_id])

\* the score of a write candidate for the routed request: distance in km from
\* the client plus load_score * 100
WriteScoreOf(r) ==
    calculate_distance(Resolve(call.request.client_ip), r.geo_location)
        + r.load_score * 100

\* C21: for a write request route_request returns a healthy leader whose score
\* distance + load_score * 100 is minimal over the healthy leaders of the
\* table: no healthy leader has a strictly lower score, and latency_ms and the
\* leader bonus play no part.
C21_WriteSelectsMinimalScore ==
    (Routed /\ call.request.query_type = "write" /\ HealthyLeaders # {})
    => /\ call.result.ok
       /\ call.result.value.node_id \in HealthyLeaders
       /\ \A n \in HealthyLeaders :
              WriteScoreOf(replicas[call.result.value.node_id])
                  <= WriteScoreOf(replicas[n])

\* a write was given the leader with the lower score although the other
\* healthy leader has the lower latency
C21_Witness ==
    /\ Routed /\ call.request.query_type = "write" /\ call.result.ok
    /\ \E n \in HealthyLeaders :
          /\ WriteScoreOf(replicas[n])
                > WriteScoreOf(replicas[call.result.value.node_id])
          /\ replicas[n].latency_ms
                < replicas[call.result.value.node_id].latency_ms

\* C22: route_request fails only in the two no-candidate cases: a request
\* other than a write succeeds whenever the table holds a healthy replica, a
\* write succeeds whenever it holds a healthy leader, and a failure is one of
\* the two no-candidate errors; neither the resolution of the client's address
\* nor the minimisation makes a request fail.
C22_FailsOnlyWithoutCandidates ==
    Routed =>
      /\ (call.request.query_type # "write" /\ HealthyNodes # {}) => call.result.ok
      /\ (call.request.query_type = "write" /\ HealthyLeaders # {}) => call.result.ok
      /\ ~call.result.ok =>
            \/ HealthyNodes = {} /\ call.result = Err(ERR_NO_HEALTHY_REPLICAS)
            \/ /\ HealthyNodes # {} /\ HealthyLeaders = {}
               /\ call.request.query_type = "write"
               /\ call.result = Err(ERR_NO_HEALTHY_LEADERS)

\* a read from an address the geo database does not know succeeded on a table
\* of healthy followers whose scores are equal
C22_Witness ==
    /\ Routed /\ call.request.query_type = "read" /\ call.result.ok
    /\ call.request.client_ip \notin DOMAIN GeoDb
    /\ HealthyNodes = NodeIds /\ HealthyLeaders = {}
    /\ \A n \in NodeIds : ReadScoreOf(replicas[n]) = ReadScoreOf(replicas["n1"])

\* the number of times node_id n stands in the bucket of zone z
Occurrences(n, z) ==
    IF z \in DOMAIN zone_replicas
    THEN Cardinality({i \in 1..Len(zone_replicas[z]) : zone_replicas[z][i] = n})
    ELSE 0

\* C25: the zone index is a set-valued partition: after update_replicas has
\* returned, whatever the input list (lists that repeat a node_id included),
\* each node_id of the primary map stands exactly once in the bucket of the
\* zone its ReplicaInfo records and in no other bucket.
C25_ZoneIndexIsPartition ==
    (call.op = "update_replicas" /\ call.returned)
    => \A n \in DOMAIN replicas :
         \A z \in Zones :
            Occurrences(n, z) = (IF z = replicas[n].zone THEN 1 ELSE 0)

-----------------------------------------------------------------------------
(* SpecMetrics: threads in MetricsCollector::record_request, one atomic
   operation of metrics.rs:38-74 per step *)

InitMetricsThreads ==
    /\ InitEngine
    /\ InitHist
    /\ InitExt
    /\ call = [op |-> "new"]
    /\ InitServer
    /\ InitMetrics
    /\ InitConn
    /\ InitHlc
    /\ rec_pc = [t \in Recorders |-> "idle"]
    /\ rec_args = [t \in Recorders |-> NoArgs]
    /\ rec_cur = [t \in Recorders |-> 0]
    /\ recorded = [started |-> 0, done |-> 0, latencies |-> {}, cas_failed |-> FALSE]

RecGoto(t, label) == rec_pc' = [rec_pc EXCEPT ![t] = label]

\* a thread enters record_request(latency_micros, success)
RecCall(t) ==
    /\ rec_pc[t] = "idle"
    /\ recorded.started < MaxRecords
    /\ \E lat \in Latencies, ok \in BOOLEAN :
          rec_args' = [rec_args EXCEPT ![t] = [latency_micros |-> lat, success |-> ok]]
    /\ recorded' = [recorded EXCEPT !.started = @ + 1]
    /\ RecGoto(t, "add_total")
    /\ UNCHANGED <<rec_cur, metricsVars, engineVars, apiVars, serverVars, otherVars>>

\* self.total_requests.fetch_add(1)
RecAddTotal(t) ==
    /\ rec_pc[t] = "add_total"
    /\ total_requests' = WrappingAdd(total_requests, 1)
    /\ RecGoto(t, "add_latency")
    /\ UNCHANGED <<successful_requests, failed_requests, total_latency_micros,
                   min_latency_micros, max_latency_micros>>
    /\ UNCHANGED <<rec_args, rec_cur, recorded, engineVars, apiVars, serverVars, otherVars>>

\* self.total_latency_micros.fetch_add(latency_micros)
RecAddLatency(t) ==
    /\ rec_pc[t] = "add_latency"
    /\ total_latency_micros' =
          WrappingAdd(total_latency_micros, rec_args[t].latency_micros)
    /\ RecGoto(t, "add_outcome")
    /\ UNCHANGED <<total_requests, successful_requests, failed_requests,
                   min_latency_micros, max_latency_micros>>
    /\ UNCHANGED <<rec_args, rec_cur, recorded, engineVars, apiVars, serverVars, otherVars>>

\* successful_requests.fetch_add(1) or failed_requests.fetch_add(1)
RecAddOutcome(t) ==
    /\ rec_pc[t] = "add_outcome"
    /\ IF rec_args[t].success
       THEN /\ successful_requests' = WrappingAdd(successful_requests, 1)
            /\ UNCHANGED failed_requests
       ELSE /\ failed_requests' = WrappingAdd(failed_requests, 1)
            /\ UNCHANGED successful_requests
    /\ RecGoto(t, "load_min")
    /\ UNCHANGED <<total_requests, total_latency_micros,
                   min_latency_micros, max_latency_micros>>
    /\ UNCHANGED <<rec_args, rec_cur, recorded, engineVars, apiVars, serverVars, otherVars>>

\* let mut current_min = self.min_latency_micros.load()
RecLoadMin(t) ==
    /\ rec_pc[t] = "load_min"
    /\ rec_cur' = [rec_cur EXCEPT ![t] = min_latency_micros]
    /\ RecGoto(t, "cas_min")
    /\ UNCHANGED <<rec_args, recorded, metricsVars, engineVars, apiVars, serverVars, otherVars>>

\* mutant: the minimum is stored without comparing it with the value loaded
RecCasMinStore(t) ==
    /\ rec_pc[t] = "cas_min"
    /\ min_latency_micros' =
          IF rec_args[t].latency_micros < rec_cur[t]
          THEN rec_args[t].latency_micros ELSE min_latency_micros
    /\ RecGoto(t, "load_max")
    /\ UNCHANGED <<total_requests, successful_requests, failed_requests,
                   total_latency_micros, max_latency_micros>>
    /\ UNCHANGED <<rec_args, rec_cur, recorded, engineVars, apiVars, serverVars, otherVars>>

\* one turn of `while latency_micros < current_min { compare_exchange_weak }`
RecCasMin(t) ==
    /\ rec_pc[t] = "cas_min"
    /\ \/ \* the loop condition is false
          /\ ~(rec_args[t].latency_micros < rec_cur[t])
          /\ RecGoto(t, "load_max")
          /\ UNCHANGED <<min_latency_micros, rec_cur, recorded>>
       \/ \* Ok(_) => break
          /\ rec_args[t].latency_micros < rec_cur[t]
          /\ min_latency_micros = rec_cur[t]
          /\ min_latency_micros' = rec_args[t].latency_micros
          /\ RecGoto(t, "load_max")
          /\ UNCHANGED <<rec_cur, recorded>>
       \/ \* Err(actual) => current_min = actual: another value, or a spurious failure
          /\ rec_args[t].latency_micros < rec_cur[t]
          /\ rec_cur' = [rec_cur EXCEPT ![t] = min_latency_micros]
          /\ recorded' = [recorded EXCEPT !.cas_failed = TRUE]
          /\ UNCHANGED <<min_latency_micros, rec_pc>>
    /\ UNCHANGED <<total_requests, successful_requests, failed_requests,
                   total_latency_micros, max_latency_micros>>
    /\ UNCHANGED <<rec_args, engineVars, apiVars, serverVars, otherVars>>

\* let mut current_max = self.max_latency_micros.load()
RecLoadMax(t) ==
    /\ rec_pc[t] = "load_max"
    /\ rec_cur' = [rec_cur EXCEPT ![t] = max_latency_micros]
    /\ RecGoto(t, "cas_max")
    /\ UNCHANGED <<rec_args, recorded, metricsVars, engineVars, apiVars, serverVars, otherVars>>

\* record_request returns
RecReturn(t) ==
    /\ rec_pc' = [rec_pc EXCEPT ![t] = "idle"]
    /\ recorded' = [recorded EXCEPT
                      !.done = @ + 1,
                      !.latencies = @ \cup {rec_args[t].latency_micros}]
    /\ rec_args' = [rec_args EXCEPT ![t] = NoArgs]
    /\ rec_cur' = [rec_cur EXCEPT ![t] = 0]

\* one turn of `while latency_micros > current_max { compare_exchange_weak }`
RecCasMax(t) ==
    /\ rec_pc[t] = "cas_max"
    /\ \/ \* the loop condition is false
          /\ ~(rec_args[t].latency_micros > rec_cur[t])
          /\ RecReturn(t)
          /\ UNCHANGED max_latency_micros
       \/ \* Ok(_) => break
          /\ rec_args[t].latency_micros > rec_cur[t]
          /\ max_latency_micros = rec_cur[t]
          /\ max_latency_micros' = rec_args[t].latency_micros
          /\ RecReturn(t)
       \/ \* Err(actual) => current_max = actual: another value, or a spurious failure
          /\ rec_args[t].latency_micros > rec_cur[t]
          /\ rec_cur' = [rec_cur EXCEPT ![t] = max_latency_micros]
          /\ recorded' = [recorded EXCEPT !.cas_failed = TRUE]
          /\ UNCHANGED <<max_latency_micros, rec_pc, rec_args>>
    /\ UNCHANGED <<total_requests, successful_requests, failed_requests,
                   total_latency_micros, min_latency_micros>>
    /\ UNCHANGED <<engineVars, apiVars, serverVars, otherVars>>

\* one step of thread t inside record_request
RecStep(t) ==
    \/ RecCall(t)
    \/ RecAddTotal(t)
    \/ RecAddLatency(t)
    \/ RecAddOutcome(t)
    \/ RecLoadMin(t)
    \/ RecCasMin(t)
    \/ RecLoadMax(t)
    \/ RecCasMax(t)

NextMetrics == \E t \in Recorders : RecStep(t)

SpecMetrics == InitMetricsThreads /\ [][NextMetrics]_vars

SetMin(S) == CHOOSE x \in S : \A y \in S : x <= y
SetMax(S) == CHOOSE x \in S : \A y \in S : x >= y

\* every record_request call that was started has returned
AllRecorded ==
    /\ \A t \in Recorders : rec_pc[t] = "idle"
    /\ recorded.done >= 1

\* C6: once N concurrent record_request calls have all returned, whatever the
\* interleaving of their atomic steps and failed compare-exchanges, the totals
\* are N, successes plus failures are N, and min and max are the smallest and
\* the largest latency recorded.
C6_NoLostUpdate ==
    AllRecorded =>
        /\ total_requests = recorded.done
        /\ successful_requests + failed_requests = recorded.done
        /\ min_latency_micros = SetMin(recorded.latencies)
        /\ max_latency_micros = SetMax(recorded.latencies)

\* three calls with three different latencies have returned, and a thread had
\* a compare-exchange fail on the way
C6_Witness ==
    /\ AllRecorded
    /\ recorded.cas_failed
    /\ recorded.done = 3
    /\ Cardinality(recorded.latencies) = 3
    /\ min_latency_micros = SetMin(recorded.latencies)
    /\ max_latency_micros = SetMax(recorded.latencies)

-----------------------------------------------------------------------------
(* SpecServer: handle_connection and process_request (main.rs:261-347), one
   await or one lock operation per step *)

\* 1024 * 1024, the largest frame length handle_connection accepts
MAX_FRAME_LEN == 1024 * 1024

\* lengths a peer can declare in the 4-byte prefix
FrameLengths == {2, MAX_FRAME_LEN, MAX_FRAME_LEN + 1}

\* client_ip strings of route requests; the last one is no IP address
ClientIpStrings == {"10.0.0.1", "not-an-ip"}

\* what a frame body deserializes to: a SidecarRequest, or a serde_json error
SidecarRequests ==
    [type : {"route"}, client_ip : ClientIpStrings, query_type : {"read", "write"}]
        \cup {[type |-> "update_routing_table"], [type |-> "ping"],
              [type |-> "metrics"], [type |-> "invalid"]}

\* the ReplicaInfo values the peers send in update_routing_table requests:
\* healthy replicas at the default location, leaders in z1 and followers in z2
ServerReplicaInfos ==
    {r \in ReplicaInfos :
        /\ r.healthy
        /\ r.is_leader = (r.zone = "z1")
        /\ r.geo_location = DefaultLocation
        /\ r.load_score = 0
        /\ r.latency_ms = 0}

\* latency_micros measured around process_request
ServerLatencies == {1}

ERR_PARSE == "expected value at line 1 column 1"
ERR_ADDR_PARSE == "invalid IP address syntax"

\* SidecarResponse::success and SidecarResponse::error
ResponseSuccess(data) == [success |-> TRUE, data |-> {data}, error |-> {}]

\* mutant: the error response carries the message as data
ResponseErrorAsData(error) == [success |-> FALSE, data |-> {error}, error |-> {}]

ResponseError(error) == [success |-> FALSE, data |-> {}, error |-> {error}]

\* client_ip.parse::<IpAddr>() succeeds
IsIpAddr(str) == str \in ClientIps

SetConn(c, label, request, resp) ==
    /\ pc' = [pc EXCEPT ![c] = label]
    /\ req' = [req EXCEPT ![c] = request]
    /\ response' = [response EXCEPT ![c] = resp]

\* mutant: the next length prefix is read while the response is still to be flushed
AtLoopHeadEarly(c) == pc[c] \in {"read_len", "flush"}

\* the handler is at the head of its loop, about to read a length prefix
AtLoopHead(c) == pc[c] = "read_len"

\* mutant: a frame of exactly MAX_FRAME_LEN bytes is refused as well
TooLargeInclusive(length) == length >= MAX_FRAME_LEN

\* if length > 1024 * 1024
TooLarge(length) == length > MAX_FRAME_LEN

\* handle_connection returns Err(anyhow!("Request too large: {} bytes", length))
ErrTooLarge(length) == [err |-> "Request too large", length |-> length]

\* handle_connection returns the std::io::Error of a failed read or write
ERR_IO == [err |-> "io"]

\* stream.read_exact(&mut buffer) and the length check
ReadLen(c) ==
    /\ AtLoopHead(c)
    /\ total_requests + Cardinality({d \in Conns : unanswered[d] > 0}) < MaxRequests
    /\ \E length \in FrameLengths :
          IF TooLarge(length)
          THEN /\ pc' = [pc EXCEPT ![c] = "closed"]
               /\ conn_result' = [conn_result EXCEPT ![c] = ErrTooLarge(length)]
               /\ UNCHANGED frame_len
          ELSE /\ pc' = [pc EXCEPT ![c] = "read_body"]
               /\ frame_len' = [frame_len EXCEPT ![c] = length]
               /\ UNCHANGED conn_result
    /\ UNCHANGED <<req, response, rw_writer, rw_readers, unanswered, upd_input>>
    /\ UNCHANGED <<engineVars, apiVars, metricsVars, recVars, otherVars>>

\* stream.read_exact(&mut request_data): the frame is read completely
ReadBody(c) ==
    /\ pc[c] = "read_body"
    /\ \E request \in SidecarRequests : SetConn(c, "process", request, response[c])
    /\ unanswered' = [unanswered EXCEPT ![c] = @ + 1]
    /\ frame_len' = [frame_len EXCEPT ![c] = NoLength]
    /\ dispatched' = dispatched + 1
    /\ UNCHANGED <<rw_writer, rw_readers, upd_input, conn_result>>
    /\ UNCHANGED <<engineVars, apiVars, metricsVars, recVars, connVars, hlcVars, extVars>>

\* a read_exact, write_all or flush fails (peer closed, truncated frame, I/O error)
IoError(c) ==
    /\ pc[c] \in {"read_len", "read_body", "write", "flush"}
    /\ SetConn(c, "closed", NoRequest, NoResponse)
    /\ frame_len' = [frame_len EXCEPT ![c] = NoLength]
    /\ conn_result' = [conn_result EXCEPT ![c] = ERR_IO]
    /\ UNCHANGED <<rw_writer, rw_readers, unanswered, upd_input>>
    /\ UNCHANGED <<engineVars, apiVars, metricsVars, recVars, otherVars>>

\* process_request returns without touching the routing engine
ProcessOther(c) ==
    /\ pc[c] = "process"
    /\ \/ /\ req[c].type = "invalid"
          /\ SetConn(c, "record", req[c], ResponseError(ERR_PARSE))
       \/ /\ req[c].type = "route"
          /\ ~IsIpAddr(req[c].client_ip)
          /\ SetConn(c, "record", req[c], ResponseError(ERR_ADDR_PARSE))
       \/ /\ req[c].type = "ping"
          /\ SetConn(c, "record", req[c], ResponseSuccess([pong |-> TRUE]))
       \/ /\ req[c].type = "metrics"
          /\ SetConn(c, "record", req[c], ResponseSuccess([metrics |-> "todo"]))
    /\ UNCHANGED <<rw_writer, rw_readers, unanswered, upd_input, frame_len, conn_result>>
    /\ UNCHANGED <<engineVars, apiVars, metricsVars, recVars, otherVars>>

\* mutant: a read guard is granted while a writer holds the lock
CanReadAlways == TRUE

\* RwLock::read() is granted: no writer holds the lock
CanRead == rw_writer = NoConn

\* mutant: a write guard is granted while readers hold the lock
CanWriteOverReaders == rw_writer = NoConn

\* RwLock::write() is granted: nobody holds the lock
CanWrite == rw_writer = NoConn /\ rw_readers = {}

\* routing_engine.read()
RouteAcquire(c) ==
    /\ pc[c] = "process"
    /\ req[c].type = "route"
    /\ IsIpAddr(req[c].client_ip)
    /\ CanRead
    /\ rw_readers' = rw_readers \cup {c}
    /\ pc' = [pc EXCEPT ![c] = "routing"]
    /\ UNCHANGED <<req, response, rw_writer, unanswered, upd_input, frame_len, conn_result>>
    /\ UNCHANGED <<engineVars, apiVars, metricsVars, recVars, otherVars>>

\* mutant: the read guard is kept after route_request
RouteKeepGuard(c) ==
    /\ pc[c] = "routing"
    /\ \E order \in IterOrders(replicas) :
          LET result == route_request(replicas,
                                      [client_ip |-> req[c].client_ip,
                                       query_type |-> req[c].query_type], order)
          IN  SetConn(c, "record", req[c],
                      IF result.ok THEN ResponseSuccess(result.value)
                      ELSE ResponseError(result.error))
    /\ UNCHANGED <<rw_readers, rw_writer, unanswered, upd_input, frame_len, conn_result>>
    /\ UNCHANGED <<engineVars, apiVars, metricsVars, recVars, otherVars>>

\* .route_request(&routing_request, geo_resolver)?, then the read guard is dropped
Route(c) ==
    /\ pc[c] = "routing"
    /\ \E order \in IterOrders(replicas) :
          LET result == route_request(replicas,
                                      [client_ip |-> req[c].client_ip,
                                       query_type |-> req[c].query_type], order)
          IN  SetConn(c, "record", req[c],
                      IF result.ok THEN ResponseSuccess(result.value)
                      ELSE ResponseError(result.error))
    /\ rw_readers' = rw_readers \ {c}
    /\ UNCHANGED <<rw_writer, unanswered, upd_input, frame_len, conn_result>>
    /\ UNCHANGED <<engineVars, apiVars, metricsVars, recVars, otherVars>>

\* routing_engine.write()
UpdateAcquire(c) ==
    /\ pc[c] = "process"
    /\ req[c].type = "update_routing_table"
    /\ CanWrite
    /\ rw_writer' = c
    /\ pc' = [pc EXCEPT ![c] = "updating"]
    /\ UNCHANGED <<req, response, rw_readers, unanswered, upd_input, frame_len, conn_result>>
    /\ UNCHANGED <<engineVars, apiVars, metricsVars, recVars, otherVars>>

\* update_replicas under the write guard: self.replicas.clear()
UpdateClearReplicas(c) ==
    /\ pc[c] = "updating"
    /\ EngClearReplicas
    /\ upd_input' = <<>>
    /\ UNCHANGED <<pc, req, response, rw_writer, rw_readers, unanswered, frame_len, conn_result>>
    /\ UNCHANGED <<apiVars, metricsVars, recVars, otherVars>>

\* self.zone_replicas.clear()
UpdateClearZones(c) ==
    /\ pc[c] = "updating"
    /\ EngClearZones
    /\ UNCHANGED <<serverVars, apiVars, metricsVars, recVars, otherVars>>

\* one iteration of the loop over the request's replicas
UpdateInsert(c) ==
    /\ pc[c] = "updating"
    /\ upd_count < MaxReplicas
    /\ \E r \in ServerReplicaInfos :
          /\ EngInsert(r)
          /\ upd_input' = Append(upd_input, r)
    /\ UNCHANGED <<pc, req, response, rw_writer, rw_readers, unanswered, frame_len, conn_result>>
    /\ UNCHANGED <<apiVars, metricsVars, recVars, otherVars>>

\* update_replicas returns Ok(()), the write guard is dropped
UpdateReturn(c) ==
    /\ pc[c] = "updating"
    /\ EngReturn
    /\ rw_writer' = NoConn
    /\ SetConn(c, "record", req[c], ResponseSuccess([updated |-> TRUE]))
    /\ UNCHANGED <<rw_readers, unanswered, upd_input, frame_len, conn_result>>
    /\ UNCHANGED <<apiVars, metricsVars, recVars, otherVars>>

\* MetricsCollector::record_request as one step
\* mutant: every request is counted as a success
RecordRequestAsSuccess(latency_micros, success) ==
    /\ total_requests' = WrappingAdd(total_requests, 1)
    /\ total_latency_micros' = WrappingAdd(total_latency_micros, latency_micros)
    /\ successful_requests' = WrappingAdd(successful_requests, 1)
    /\ UNCHANGED failed_requests
    /\ min_latency_micros' =
          IF latency_micros < min_latency_micros
          THEN latency_micros ELSE min_latency_micros
    /\ max_latency_micros' =
          IF latency_micros > max_latency_micros
          THEN latency_micros ELSE max_latency_micros

RecordRequest(latency_micros, success) ==
    /\ total_requests' = WrappingAdd(total_requests, 1)
    /\ total_latency_micros' = WrappingAdd(total_latency_micros, latency_micros)
    /\ successful_requests' =
          IF success THEN WrappingAdd(successful_requests, 1) ELSE successful_requests
    /\ failed_requests' =
          IF success THEN failed_requests ELSE WrappingAdd(failed_requests, 1)
    /\ min_latency_micros' =
          IF latency_micros < min_latency_micros
          THEN latency_micros ELSE min_latency_micros
    /\ max_latency_micros' =
          IF latency_micros > max_latency_micros
          THEN latency_micros ELSE max_latency_micros

\* the MetricsSnapshot get_snapshot builds from the six values it loaded; the
\* f64 quotient is kept as the pair of its operands
MetricsSnapshot(total, successful, failed, latency, min, max) ==
    [total_requests |-> total,
     successful_requests |-> successful,
     failed_requests |-> failed,
     avg_latency_micros |-> IF total > 0 THEN [num |-> latency, den |-> total]
                            ELSE [num |-> 0, den |-> 1],
     min_latency_micros |-> IF min = U64_MAX THEN 0 ELSE min,
     max_latency_micros |-> max]

\* MetricsCollector::get_snapshot with no record_request running beside it
get_snapshot ==
    MetricsSnapshot(total_requests, successful_requests, failed_requests,
                    total_latency_micros, min_latency_micros, max_latency_micros)

\* metrics.record_request(latency_micros, response.success)
Record(c) ==
    /\ pc[c] = "record"
    /\ \E latency_micros \in ServerLatencies :
          RecordRequest(latency_micros, response[c].success)
    /\ pc' = [pc EXCEPT ![c] = "write"]
    /\ UNCHANGED <<req, response, rw_writer, rw_readers, unanswered, upd_input, frame_len, conn_result>>
    /\ UNCHANGED <<engineVars, apiVars, recVars, otherVars>>

\* stream.write_all(&response_length) and stream.write_all(&response_data)
WriteResponse(c) ==
    /\ pc[c] = "write"
    /\ pc' = [pc EXCEPT ![c] = "flush"]
    /\ UNCHANGED <<req, response, rw_writer, rw_readers, unanswered, upd_input, frame_len, conn_result>>
    /\ UNCHANGED <<engineVars, apiVars, metricsVars, recVars, otherVars>>

\* stream.flush(): the response frame is out, the loop starts over
Flush(c) ==
    /\ pc[c] = "flush"
    /\ SetConn(c, "read_len", NoRequest, NoResponse)
    /\ unanswered' = [unanswered EXCEPT ![c] = @ - 1]
    /\ UNCHANGED <<rw_writer, rw_readers, upd_input, frame_len, conn_result>>
    /\ UNCHANGED <<engineVars, apiVars, metricsVars, recVars, otherVars>>

\* one step of the handler task of connection c
ConnStep(c) ==
    \/ ReadLen(c)
    \/ ReadBody(c)
    \/ IoError(c)
    \/ ProcessOther(c)
    \/ RouteAcquire(c)
    \/ Route(c)
    \/ UpdateAcquire(c)
    \/ UpdateClearReplicas(c)
    \/ UpdateClearZones(c)
    \/ UpdateInsert(c)
    \/ UpdateReturn(c)
    \/ Record(c)
    \/ WriteResponse(c)
    \/ Flush(c)

NextServer == \E c \in Conns : ConnStep(c)

SpecServer == Init /\ [][NextServer]_vars

\* SpecLoop: one client on one connection; the other handler never runs, so
\* the metrics counters count the frames of this connection
LoopConn == "c1"

NextLoop == ConnStep(LoopConn)

SpecLoop == Init /\ [][NextLoop]_vars

-----------------------------------------------------------------------------
(* Properties of the shared routing table (SpecServer) *)

\* some connection holds a read guard and is inside route_request
Reading == \E c \in Conns : pc[c] = "routing"

\* every node_id in a zone bucket is a key of the primary map
ZoneRefsInMap ==
    \A z \in DOMAIN zone_replicas :
        \A i \in 1..Len(zone_replicas[z]) : zone_replicas[z][i] \in DOMAIN replicas

\* every key of the primary map is listed in some zone bucket
MapKeysInZones ==
    \A n \in DOMAIN replicas :
        \E z \in DOMAIN zone_replicas :
            \E i \in 1..Len(zone_replicas[z]) : zone_replicas[z][i] = n

\* C3: a route request that runs while another connection updates the table
\* reads a complete table: no update_replicas call is under way while it holds
\* the read guard, and both maps are the ones the last completed call built
\* from its whole list, never cleared, half rebuilt or mixed.
C3_TableAtomicity ==
    Reading =>
        /\ upd_pc = "none"
        /\ rw_writer = NoConn
        /\ replicas = BuildReplicas(upd_input)
        /\ zone_replicas = BuildZones(upd_input)
        /\ ZoneRefsInMap

\* a route request reads a table of replicas while an update_routing_table
\* request of the other connection waits for the write guard
C3_Witness ==
    /\ pc["c1"] = "routing"
    /\ replicas # EmptyMap
    /\ pc["c2"] = "process"
    /\ req["c2"].type = "update_routing_table"

\* C8: in every state a reader can see (no writer holds the lock), every
\* node_id in a zone bucket is a key of the primary map and every key of the
\* primary map is in some zone bucket.
C8_ZoneIndexConsistent ==
    rw_writer = NoConn => (ZoneRefsInMap /\ MapKeysInZones)

\* a reader sees a table built from a list that names one node twice, in two zones
C8_Witness ==
    /\ Reading
    /\ rw_writer = NoConn
    /\ \E n \in DOMAIN replicas :
          \A z \in Zones :
              /\ z \in DOMAIN zone_replicas
              /\ \E i \in 1..Len(zone_replicas[z]) : zone_replicas[z][i] = n

\* node_ids occurring in a list of replicas
NodeIdsOf(list) == {list[i].node_id : i \in 1..Len(list)}

\* position of the last entry of the list that carries the node_id
LastIndexOf(list, n) ==
    CHOOSE i \in 1..Len(list) :
        /\ list[i].node_id = n
        /\ \A j \in 1..Len(list) : list[j].node_id = n => j <= i

\* C9: update_replicas(L) replaces the table: once it has returned, the keys
\* of the primary map are exactly the node_ids of L, each key maps to the last
\* entry of L with that node_id, and the request is answered with success
\* whether or not L repeats a node_id.
C9_FullReplacement ==
    /\ upd_pc = "none" =>
          /\ DOMAIN replicas = NodeIdsOf(upd_input)
          /\ \A n \in DOMAIN replicas :
                replicas[n] = upd_input[LastIndexOf(upd_input, n)]
    /\ \A c \in Conns :
          (pc[c] \in {"record", "write", "flush"}
              /\ req[c].type = "update_routing_table")
          => response[c] = ResponseSuccess([updated |-> TRUE])

\* an update whose list names one node twice, with different entries, has
\* returned and is answered with {updated: true}
C9_Witness ==
    /\ upd_pc = "none"
    /\ Len(upd_input) = 2
    /\ upd_input[1].node_id = upd_input[2].node_id
    /\ upd_input[1] # upd_input[2]
    /\ replicas[upd_input[1].node_id] = upd_input[2]
    /\ \E c \in Conns :
          /\ pc[c] = "record"
          /\ req[c].type = "update_routing_table"
          /\ response[c].success

-----------------------------------------------------------------------------
(* Properties of the connection loop (SpecServer) *)

\* the response is one process_request builds for the request
Answers(request, resp) ==
    CASE request.type = "ping" -> resp = ResponseSuccess([pong |-> TRUE])
      [] request.type = "metrics" -> resp = ResponseSuccess([metrics |-> "todo"])
      [] request.type = "update_routing_table" ->
            resp = ResponseSuccess([updated |-> TRUE])
      [] request.type = "invalid" -> resp = ResponseError(ERR_PARSE)
      [] request.type = "route" ->
            IF resp.success
            THEN \E v \in resp.data : v.routing_strategy = "closest_healthy"
            ELSE resp.error \subseteq {ERR_ADDR_PARSE, ERR_NO_HEALTHY_REPLICAS,
                                       ERR_NO_HEALTHY_LEADERS}
      [] OTHER -> FALSE

\* C10: a connection handles its requests one at a time: no length prefix is
\* read while a request frame that was read is still unanswered, at most one
\* request is unanswered at any time, and the response written is the one
\* built for that request.
C10_OneRequestAtATime ==
    \A c \in Conns :
        /\ unanswered[c] <= 1
        /\ pc[c] \in {"read_len", "read_body"} => unanswered[c] = 0
        /\ pc[c] \in {"process", "routing", "updating", "record", "write", "flush"}
              => unanswered[c] = 1
        /\ pc[c] \in {"write", "flush"} => Answers(req[c], response[c])

\* a connection is reading the body of a frame after requests were answered,
\* while the other connection has a response still to flush
C10_Witness ==
    /\ pc["c1"] = "read_body"
    /\ unanswered["c1"] = 0
    /\ total_requests = 2
    /\ pc["c2"] = "flush"
    /\ unanswered["c2"] = 1
    /\ response["c2"].success
    /\ req["c2"].type = "route"

-----------------------------------------------------------------------------
(* Properties of one connection loop (SpecLoop, SpecServer) *)

\* process_request fails on the request connection c holds: the payload does
\* not parse, client_ip is no IP address, or the table has no candidate
RequestFails(c) ==
    \/ req[c].type = "invalid"
    \/ /\ req[c].type = "route"
       /\ \/ ~IsIpAddr(req[c].client_ip)
          \/ HealthyNodes = {}
          \/ req[c].query_type = "write" /\ HealthyLeaders = {}

\* C11: a request that fails for a request-semantic reason (unparseable
\* payload, invalid client_ip, no healthy replicas, no healthy leaders) is
\* answered with success = false, no data and a non-empty error string, and
\* the connection stays open: handle_connection has not returned while the
\* response is recorded, written and flushed.
C11_ErrorResponseKeepsConnection ==
    \A c \in Conns :
        (pc[c] \in {"record", "write", "flush"} /\ RequestFails(c)) =>
            /\ response[c].success = FALSE
            /\ response[c].data = {}
            /\ response[c].error # {}
            /\ "" \notin response[c].error
            /\ conn_result[c] = NoResult

\* the first frame of the connection was answered with an error response, the
\* second frame has been read and is answered normally
C11_Witness ==
    /\ total_requests = 1
    /\ failed_requests = 1
    /\ pc[LoopConn] = "record"
    /\ req[LoopConn].type = "ping"
    /\ response[LoopConn] = ResponseSuccess([pong |-> TRUE])
    /\ conn_result[LoopConn] = NoResult

\* C12: a length prefix of more than 1,048,576 ends the connection at once:
\* no body is read, nothing is dispatched and no response is built; a frame of
\* exactly 1,048,576 bytes or fewer is accepted and its body is read.
C12_FrameLengthLimit ==
    \A c \in Conns :
        /\ conn_result[c].err = "Request too large" =>
              /\ conn_result[c].length > 1048576
              /\ pc[c] = "closed"
              /\ frame_len[c] = NoLength
              /\ req[c] = NoRequest
              /\ response[c] = NoResponse
              /\ unanswered[c] = 0
        /\ pc[c] = "read_body" =>
              /\ frame_len[c] \in FrameLengths
              /\ frame_len[c] <= 1048576
              /\ conn_result[c] = NoResult

\* one connection reads the body of a frame of exactly 1,048,576 bytes, the
\* other was ended by a prefix of 1,048,577
C12_Witness ==
    /\ pc["c1"] = "read_body"
    /\ frame_len["c1"] = 1048576
    /\ pc["c2"] = "closed"
    /\ conn_result["c2"] = ErrTooLarge(1048577)

\* C17: a metrics request is answered with a success response whose data is
\* the snapshot of the Metrics Collector (the three counts and the average,
\* minimum and maximum latency) taken while the request is processed.
C17_MetricsAnswerIsSnapshot ==
    \A c \in Conns :
        (pc[c] = "record" /\ req[c].type = "metrics") =>
            /\ response[c].success
            /\ response[c].data = {get_snapshot}

\* the connections whose frame is read and not yet recorded
BeingProcessed == {c \in Conns : pc[c] \in {"process", "routing", "updating", "record"}}

B2N(b) == IF b THEN 1 ELSE 0

\* a step that changes a counter is the record_request of one handler, for the
\* response it is about to write, and a handler comes to write a response
\* only by that step
RecordedBeforeWrite ==
    /\ (total_requests' # total_requests
           \/ successful_requests' # successful_requests
           \/ failed_requests' # failed_requests)
        => \E c \in Conns :
              /\ pc[c] = "record" /\ pc'[c] = "write"
              /\ response'[c] = response[c]
              /\ total_requests' = total_requests + 1
              /\ successful_requests'
                    = successful_requests + B2N(response[c].success)
              /\ failed_requests' = failed_requests + B2N(~response[c].success)
    /\ \A c \in Conns :
          (pc'[c] = "write" /\ pc[c] # "write")
          => pc[c] = "record" /\ total_requests' = total_requests + 1

\* C23: every request frame read completely is recorded in the Metrics
\* Collector exactly once, with the success flag of its response and before
\* the response is written; oversized and truncated frames are not recorded:
\* total_requests is the number of frames read completely, less those whose
\* handler has not reached record_request yet.
C23_EveryFrameRecordedOnce ==
    /\ [](total_requests + Cardinality(BeingProcessed) = dispatched)
    /\ [][RecordedBeforeWrite]_vars

\* one connection has recorded a failed request and is about to write its
\* response, the other was closed by an oversized frame: one request counted
C23_Witness ==
    /\ pc["c1"] = "write" /\ ~response["c1"].success
    /\ total_requests = 1 /\ failed_requests = 1 /\ dispatched = 1
    /\ pc["c2"] = "closed" /\ conn_result["c2"] = ErrTooLarge(MAX_FRAME_LEN + 1)

-----------------------------------------------------------------------------
(* SpecServerFair: the handlers of SpecServer under fair scheduling, with
   peers that accept what is written to them.  A handler task that can take
   a step of its own (process_request, record_request, write_all, flush) is
   scheduled by the runtime; parking_lot's RwLock is fair, so a handler that
   waits in read() or write() gets the lock if it is free again and again. *)

\* the peer closes or breaks the connection while the handler reads a frame
PeerCloses(c) ==
    /\ pc[c] \in {"read_len", "read_body"}
    /\ IoError(c)

\* a step the handler takes without waiting for its peer
HandlerStep(c) ==
    \/ ProcessOther(c)
    \/ RouteAcquire(c)
    \/ Route(c)
    \/ UpdateAcquire(c)
    \/ UpdateClearReplicas(c)
    \/ UpdateClearZones(c)
    \/ UpdateInsert(c)
    \/ UpdateReturn(c)
    \/ Record(c)
    \/ WriteResponse(c)
    \/ Flush(c)

FairConnStep(c) ==
    \/ ReadLen(c)
    \/ ReadBody(c)
    \/ PeerCloses(c)
    \/ HandlerStep(c)

NextServerFair == \E c \in Conns : FairConnStep(c)

SpecServerFair ==
    /\ Init
    /\ [][NextServerFair]_vars
    /\ \A c \in Conns : WF_vars(HandlerStep(c))

WaitsForWrite(c) == pc[c] = "process" /\ req[c].type = "update_routing_table"

\* the guards of the RwLock are held by handlers inside route_request or
\* update_replicas, which run on without waiting for anything
GuardsHeldByRunning ==
    /\ \A c \in Conns : c \in rw_readers <=> pc[c] = "routing"
    /\ \A c \in Conns : rw_writer = c <=> pc[c] = "updating"

-----------------------------------------------------------------------------
(* SpecSnapshot: a thread calling MetricsCollector::get_snapshot beside a
   thread calling record_request, one atomic operation of metrics.rs:38-82
   per step *)

SnapLoad(field, value, next) ==
    /\ snap_loaded' = [snap_loaded EXCEPT ![field] = value]
    /\ snap_pc' = next
    /\ UNCHANGED <<metricsVars, recVars, engineVars, apiVars, serverVars,
                   connVars, hlcVars, histVars, nowVars>>

\* get_snapshot is entered: self.total_requests.load()
SnapLoadTotal ==
    /\ snap_pc = "load_total"
    /\ snapshot' = {}
    /\ SnapLoad("total", total_requests, "load_successful")

\* self.successful_requests.load()
SnapLoadSuccessful ==
    /\ snap_pc = "load_successful"
    /\ SnapLoad("successful", successful_requests, "load_failed")
    /\ UNCHANGED snapshot

\* self.failed_requests.load()
SnapLoadFailed ==
    /\ snap_pc = "load_failed"
    /\ SnapLoad("failed", failed_requests, "load_latency")
    /\ UNCHANGED snapshot

\* self.total_latency_micros.load()
SnapLoadLatency ==
    /\ snap_pc = "load_latency"
    /\ SnapLoad("latency", total_latency_micros, "load_min")
    /\ UNCHANGED snapshot

\* self.min_latency_micros.load()
SnapLoadMin ==
    /\ snap_pc = "load_min"
    /\ SnapLoad("min", min_latency_micros, "load_max")
    /\ UNCHANGED snapshot

\* self.max_latency_micros.load(), and the MetricsSnapshot is returned
SnapLoadMax ==
    /\ snap_pc = "load_max"
    /\ snapshot' = {MetricsSnapshot(snap_loaded.total, snap_loaded.successful,
                                    snap_loaded.failed, snap_loaded.latency,
                                    snap_loaded.min, max_latency_micros)}
    /\ snap_loaded' = NoLoads
    /\ snap_pc' = "load_total"
    /\ UNCHANGED <<metricsVars, recVars, engineVars, apiVars, serverVars,
                   connVars, hlcVars, histVars, nowVars>>

SnapStep ==
    \/ SnapLoadTotal
    \/ SnapLoadSuccessful
    \/ SnapLoadFailed
    \/ SnapLoadLatency
    \/ SnapLoadMin
    \/ SnapLoadMax

\* the thread that records beside the one taking snapshots
SnapRecorder == "t1"

NextSnapshot == RecStep(SnapRecorder) \/ SnapStep

SpecSnapshot == InitMetricsThreads /\ [][NextSnapshot]_vars

\* C24: every snapshot get_snapshot returns, one taken while record_request
\* calls are in progress on other threads included, is consistent in itself:
\* successful + failed <= total, and min_latency <= max_latency when total > 0.
C24_SnapshotConsistent ==
    \A s \in snapshot :
        /\ s.successful_requests + s.failed_requests <= s.total_requests
        /\ s.total_requests > 0 => s.min_latency_micros <= s.max_latency_micros

-----------------------------------------------------------------------------
(* SpecConn: the two listeners, the tasks they spawn and the periodic sweep
   (main.rs:156-258).  The listeners and the sweep are futures of one task
   (tokio::select! in run), so an accept with its check and insert, and a
   sweep, are single steps; the spawned tasks run beside them.  What a task
   does inside handle_connection is the loop of SpecServer; here it is one
   step per answered request and one step for the end of the loop. *)

Transports == {"tcp", "unix"}

\* peer_addr of TCP clients and readings of current_timestamp_micros()
Peers == {"p1"}
Stamps == {"s1", "s2"}

\* readings of SystemTime::now() in seconds
ClockValues == {0, 1, 300}

\* the retention window of the sweep: d.as_secs() < 300
RETENTION_SECS == 300

\* format!("tcp:{}", peer_addr) and format!("unix:{}", current_timestamp_micros())
ConnectionIds(transport) ==
    IF transport = "tcp" THEN {<<"tcp", p>> : p \in Peers}
    ELSE {<<"unix", t>> : t \in Stamps}

\* the kernel hands out a peer_addr to one established connection at a time
PeerInUse(id) == \E k \in ConnSlots : task[k] = "running" /\ conn_id[k] = id

\* history: the record under connection k's id is the one made for k
HoldsRecord(k) ==
    /\ conn_id[k] \in DOMAIN active_connections
    /\ active_connections[conn_id[k]].conn = k

\* mutant: the limit is never reached
LimitReachedNever == FALSE

\* mutant: the limit is taken to be reached one record later
LimitReachedAbove == Cardinality(DOMAIN active_connections) > MaxConnections

\* self.active_connections.len() >= self.args.max_connections
LimitReached == Cardinality(DOMAIN active_connections) >= MaxConnections

\* self.active_connections.insert(connection_id.clone(), SystemTime::now())
Register(id, k) ==
    active_connections' =
        [i \in DOMAIN active_connections \cup {id} |->
            IF i = id THEN [connected_at |-> now, conn |-> k]
            ELSE active_connections[i]]

\* listener.accept().await? returns a stream: the limit check, then either
\* `continue` (the stream is dropped) or insert and tokio::spawn
Accept(k, transport) ==
    /\ task[k] = "none"
    /\ \A j \in ConnSlots : j < k => task[j] # "none"
    /\ last_step' = [op |-> "accept", conn |-> k, before |-> active_connections]
    /\ IF LimitReached
       THEN /\ task' = [task EXCEPT ![k] = "dropped"]
            /\ UNCHANGED <<active_connections, conn_id>>
       ELSE \E id \in ConnectionIds(transport) :
               /\ transport = "tcp" => ~PeerInUse(id)
               /\ Register(id, k)
               /\ conn_id' = [conn_id EXCEPT ![k] = id]
               /\ task' = [task EXCEPT ![k] = "running"]
    /\ UNCHANGED now
    /\ UNCHANGED <<engineVars, apiVars, serverVars, metricsVars, recVars, hlcVars, histVars, extVars>>

\* one iteration of the loop of handle_connection: a request is answered
ServeRequest(k) ==
    /\ task[k] = "running"
    /\ last_step' = [op |-> "serve", conn |-> k, registered |-> HoldsRecord(k)]
    /\ UNCHANGED <<active_connections, now, task, conn_id>>
    /\ UNCHANGED <<engineVars, apiVars, serverVars, metricsVars, recVars, hlcVars, histVars, extVars>>

\* handle_connection(...).await returns, with Ok or Err
ConnEnd(k) ==
    /\ task[k] = "running"
    /\ task' = [task EXCEPT ![k] = "ended"]
    /\ last_step' = NoStep
    /\ UNCHANGED <<active_connections, now, conn_id>>
    /\ UNCHANGED <<engineVars, apiVars, serverVars, metricsVars, recVars, hlcVars, histVars, extVars>>

\* DashMap::remove
MapRemove(m, id) == [i \in DOMAIN m \ {id} |-> m[i]]

\* mutant: the task finishes without removing its record
UnregisterSkip(k) ==
    /\ task[k] = "ended"
    /\ task' = [task EXCEPT ![k] = "done"]
    /\ last_step' = NoStep
    /\ UNCHANGED <<active_connections, now, conn_id>>
    /\ UNCHANGED <<engineVars, apiVars, serverVars, metricsVars, recVars, hlcVars, histVars, extVars>>

\* active_connections.remove(&connection_id), the last statement of the task
Unregister(k) ==
    /\ task[k] = "ended"
    /\ active_connections' = MapRemove(active_connections, conn_id[k])
    /\ task' = [task EXCEPT ![k] = "done"]
    /\ last_step' = NoStep
    /\ UNCHANGED <<now, conn_id>>
    /\ UNCHANGED <<engineVars, apiVars, serverVars, metricsVars, recVars, hlcVars, histVars, extVars>>

\* mutant: a record of exactly 300 seconds is kept
RetainedInclusive(connected_at) ==
    now >= connected_at /\ now - connected_at <= RETENTION_SECS

\* now.duration_since(connected_at).map_or(false, |d| d.as_secs() < 300):
\* duration_since is Err when connected_at is later than now
Retained(connected_at) ==
    now >= connected_at /\ now - connected_at < RETENTION_SECS

\* interval.tick().await returns: active_connections.retain(...)
Sweep ==
    /\ active_connections' =
          [i \in {j \in DOMAIN active_connections :
                     Retained(active_connections[j].connected_at)} |->
              active_connections[i]]
    /\ last_step' = [op |-> "sweep", before |-> active_connections, tasks |-> task]
    /\ UNCHANGED <<now, task, conn_id>>
    /\ UNCHANGED <<engineVars, apiVars, serverVars, metricsVars, recVars, hlcVars, histVars, extVars>>

\* time passes
ClockAdvance ==
    /\ \E t \in ClockValues : t > now /\ now' = t
    /\ last_step' = NoStep
    /\ UNCHANGED <<active_connections, task, conn_id>>
    /\ UNCHANGED <<engineVars, apiVars, serverVars, metricsVars, recVars, hlcVars, histVars, extVars>>

\* the system clock is set back: SystemTime is not monotonic
ClockSetBack ==
    /\ \E t \in ClockValues : t < now /\ now' = t
    /\ last_step' = NoStep
    /\ UNCHANGED <<active_connections, task, conn_id>>
    /\ UNCHANGED <<engineVars, apiVars, serverVars, metricsVars, recVars, hlcVars, histVars, extVars>>

NextConn ==
    \/ \E k \in ConnSlots, transport \in Transports : Accept(k, transport)
    \/ \E k \in ConnSlots : ServeRequest(k)
    \/ \E k \in ConnSlots : ConnEnd(k)
    \/ \E k \in ConnSlots : Unregister(k)
    \/ Sweep
    \/ ClockAdvance
    \/ ClockSetBack

SpecConn == Init /\ [][NextConn]_vars

\* the task spawned for a connection runs on: once handle_connection has
\* returned, the remove that follows it is reached without another await
SpecConnFair == SpecConn /\ \A k \in ConnSlots : WF_vars(Unregister(k))

-----------------------------------------------------------------------------
(* Properties of the connection manager (SpecConn, SpecConnFair) *)

\* the map holds a record made for connection k
HasRecordOf(k) ==
    \E id \in DOMAIN active_connections : active_connections[id].conn = k

Live == {k \in ConnSlots : task[k] = "running"}

\* C13: once the loop of an admitted connection has ended, for whatever
\* reason, the connection is eventually unregistered, and from then on the
\* map never again holds the record made for it.
C13_EndedConnectionUnregistered ==
    \A k \in ConnSlots :
        (task[k] = "ended") ~> [](task[k] = "done" /\ ~HasRecordOf(k))

\* a connection has ended and is unregistered while a later one is being served
C13_Witness ==
    \E k, j \in ConnSlots :
        /\ task[k] = "done" /\ conn_id[k] # NoId /\ ~HasRecordOf(k)
        /\ task[j] = "running" /\ HoldsRecord(j)

\* C14: a connection accepted while the map holds max_connections records or
\* more is dropped: it is not registered and gets no connection_id, no request
\* of it is ever answered, and the map is left as it was; below the limit the
\* connection is registered and served.  The listener goes on accepting.
C14_DropAtLimit ==
    /\ last_step.op = "accept" =>
          IF Cardinality(DOMAIN last_step.before) >= MaxConnections
          THEN /\ task[last_step.conn] = "dropped"
               /\ active_connections = last_step.before
          ELSE /\ task[last_step.conn] = "running"
               /\ HoldsRecord(last_step.conn)
    /\ \A k \in ConnSlots :
          task[k] = "dropped" => conn_id[k] = NoId /\ ~HasRecordOf(k)
    /\ last_step.op = "serve" => task[last_step.conn] = "running"

\* a connection was dropped at the limit, and a later one has just been
\* accepted and registered
C14_Witness ==
    /\ last_step.op = "accept"
    /\ task[last_step.conn] = "running"
    /\ \E k \in ConnSlots : k < last_step.conn /\ task[k] = "dropped"

\* seconds from the registration of a record to the reading of the clock
AgeOf(record) == now - record.connected_at

\* C15 as stated: the sweep removes exactly the records whose age has reached
\* 300 seconds and keeps all younger ones, and leaves every task as it was.
C15_SweepRemovesExactlyExpired ==
    last_step.op = "sweep" =>
        /\ \A id \in DOMAIN last_step.before :
              /\ id \in DOMAIN active_connections
                    <=> AgeOf(last_step.before[id]) < 300
              /\ id \in DOMAIN active_connections
                    => active_connections[id] = last_step.before[id]
        /\ DOMAIN active_connections \subseteq DOMAIN last_step.before
        /\ task = last_step.tasks

\* C15, amended: the sweep removes exactly the records whose age has reached
\* 300 seconds or whose registration time is later than the clock reading of
\* the sweep (the system clock was set back), and keeps all others unchanged;
\* it leaves every task, live or not, as it was.
C15_SweepRemovesExpiredOrFuture ==
    last_step.op = "sweep" =>
        /\ \A id \in DOMAIN last_step.before :
              /\ id \in DOMAIN active_connections
                    <=> /\ AgeOf(last_step.before[id]) < 300
                        /\ AgeOf(last_step.before[id]) >= 0
              /\ id \in DOMAIN active_connections
                    => active_connections[id] = last_step.before[id]
        /\ DOMAIN active_connections \subseteq DOMAIN last_step.before
        /\ task = last_step.tasks

\* the sweep has just removed the record, 300 seconds old, of a connection
\* whose loop is running
C15_Witness ==
    /\ last_step.op = "sweep"
    /\ \E id \in DOMAIN last_step.before \ DOMAIN active_connections :
          /\ AgeOf(last_step.before[id]) = 300
          /\ task[last_step.before[id].conn] = "running"

\* C16: the connections whose loop is running never number more than
\* max_connections.
C16_LiveWithinCeiling == Cardinality(Live) <= MaxConnections

\* C27: the number of registered connection records never exceeds
\* max_connections: a listener checks the limit and registers in one step, no
\* other accept comes between, and the handler tasks and the sweep only
\* remove records.
C27_RecordsWithinLimit ==
    Cardinality(DOMAIN active_connections) <= MaxConnections

\* a handler task has removed its record, and a later accept has registered a
\* connection that fills the map up to the limit again
C27_Witness ==
    /\ \E k \in ConnSlots : task[k] = "done"
    /\ last_step.op = "accept"
    /\ Cardinality(DOMAIN last_step.before) = MaxConnections - 1
    /\ Cardinality(DOMAIN active_connections) = MaxConnections

-----------------------------------------------------------------------------
(* SpecHlc, SpecHlcNow: one HybridLogicalClock used from one thread
   (hlc/src/lib.rs:26-111).  u64 is three bits wide, as for the metrics
   counters: U64_MAX stands for u64::MAX. *)

\* readings of get_physical_time(): they advance, stand still and go back
PhysicalTimes == {0, 1, 2, 3}

\* the remote timestamps handed to update
RemoteTimestamps ==
    [physical : PhysicalTimes \cup {4}, logical : {0, 1, U64_MAX - 1, U64_MAX}]

\* HLCTimestamp::compare: physical first, then logical
compare(a, b) ==
    IF a.physical < b.physical THEN "Less"
    ELSE IF a.physical > b.physical THEN "Greater"
    ELSE IF a.logical < b.logical THEN "Less"
    ELSE IF a.logical > b.logical THEN "Greater"
    ELSE "Equal"

is_greater_than(a, b) == compare(a, b) = "Greater"

\* x + 1 on u64 overflows
Add1Overflows(x) == x = U64_MAX

\* a call returns timestamp ts, or panics on an overflow in a build with
\* overflow checks
HlcReturn(op, remote, physical, logical, overflow) ==
    /\ hlc_last' = IF overflow /\ overflow_checks
                   THEN [op |-> op, remote |-> remote, ts |-> NoTimestamp,
                         panicked |-> TRUE]
                   ELSE [op |-> op, remote |-> remote,
                         ts |-> [physical |-> physical, logical |-> logical],
                         panicked |-> FALSE]
    /\ hlc_max' = IF is_greater_than(hlc_last.ts, hlc_max) THEN hlc_last.ts
                  ELSE hlc_max
    /\ hlc_calls' = hlc_calls + 1
    /\ UNCHANGED overflow_checks

\* mutant: a physical time equal to last_physical counts as advanced
PhysicalAdvancedOrEqual(physical_now) == physical_now >= last_physical

\* if physical_now > last_physical
PhysicalAdvanced(physical_now) == physical_now > last_physical

\* HybridLogicalClock::now
HlcNow ==
    /\ hlc_calls < MaxHlcCalls
    /\ ~hlc_last.panicked
    /\ \E physical_now \in PhysicalTimes :
          IF PhysicalAdvanced(physical_now)
          THEN /\ last_physical' = physical_now
               /\ logical_counter' = 0
               /\ HlcReturn("now", NoTimestamp, physical_now, 0, FALSE)
          ELSE /\ logical_counter' = WrappingAdd(logical_counter, 1)
               /\ UNCHANGED last_physical
               /\ HlcReturn("now", NoTimestamp, last_physical,
                            WrappingAdd(logical_counter, 1),
                            Add1Overflows(logical_counter))
    /\ UNCHANGED <<engineVars, apiVars, serverVars, metricsVars, recVars, connVars, histVars, extVars>>

Max2(a, b) == IF a > b THEN a ELSE b

\* HybridLogicalClock::update
HlcUpdate ==
    /\ hlc_calls < MaxHlcCalls
    /\ ~hlc_last.panicked
    /\ \E physical_now \in PhysicalTimes, remote_ts \in RemoteTimestamps :
          LET max_physical == Max2(physical_now, remote_ts.physical)
              current_logical == logical_counter
          IN  IF max_physical > last_physical
              THEN /\ last_physical' = max_physical
                   /\ IF max_physical = remote_ts.physical
                      THEN /\ logical_counter' =
                                 IF Add1Overflows(remote_ts.logical) /\ overflow_checks
                                 THEN logical_counter
                                 ELSE WrappingAdd(remote_ts.logical, 1)
                           /\ HlcReturn("update", remote_ts, max_physical,
                                        WrappingAdd(remote_ts.logical, 1),
                                        Add1Overflows(remote_ts.logical))
                      ELSE /\ logical_counter' = 0
                           /\ HlcReturn("update", remote_ts, max_physical, 0, FALSE)
              ELSE /\ UNCHANGED last_physical
                   /\ IF last_physical = remote_ts.physical
                      THEN LET m == Max2(current_logical, remote_ts.logical)
                           IN  /\ logical_counter' =
                                     IF Add1Overflows(m) /\ overflow_checks
                                     THEN logical_counter
                                     ELSE WrappingAdd(m, 1)
                               /\ HlcReturn("update", remote_ts, last_physical,
                                            WrappingAdd(m, 1), Add1Overflows(m))
                      ELSE /\ logical_counter' = WrappingAdd(logical_counter, 1)
                           /\ HlcReturn("update", remote_ts, last_physical,
                                        WrappingAdd(logical_counter, 1),
                                        Add1Overflows(logical_counter))
    /\ UNCHANGED <<engineVars, apiVars, serverVars, metricsVars, recVars, connVars, histVars, extVars>>

\* a clock in either build
InitAnyBuild ==
    /\ InitEngine
    /\ InitHist
    /\ InitExt
    /\ call = [op |-> "new"]
    /\ InitServer
    /\ InitMetrics
    /\ InitRec
    /\ InitConn
    /\ InitClock
    /\ overflow_checks \in BOOLEAN
    /\ hlc_last = NoCall
    /\ hlc_max = NoTimestamp
    /\ hlc_calls = 0

NextHlc == HlcNow \/ HlcUpdate

SpecHlc == InitAnyBuild /\ [][NextHlc]_vars

\* a clock on which only now is called
NextHlcNow == HlcNow

SpecHlcNow == InitAnyBuild /\ [][NextHlcNow]_vars

-----------------------------------------------------------------------------
(* Properties of the hybrid logical clock (SpecHlcNow, SpecHlc) *)

\* C18: every timestamp now returns is greater under compare than every
\* timestamp returned before it, whether the physical time read by the call
\* is later than, equal to or earlier than the one read before.
C18_NowStrictlyIncreasing ==
    hlc_last.op = "now" =>
        /\ ~hlc_last.panicked
        /\ hlc_max # NoTimestamp => compare(hlc_last.ts, hlc_max) = "Greater"

\* a fourth call of now has returned after the physical time had advanced and
\* then stood still or gone back: its timestamp carries a logical part
C18_Witness ==
    /\ hlc_last.op = "now"
    /\ hlc_calls = 4
    /\ hlc_last.ts.physical = 2
    /\ hlc_last.ts.logical = 2
    /\ hlc_max = [physical |-> 2, logical |-> 1]

\* C19: update(remote_ts) returns a timestamp greater than remote_ts and
\* greater than every timestamp the clock returned before, wherever the
\* physical part of remote_ts lies.
C19_UpdateExceedsRemoteAndPast ==
    hlc_last.op = "update" =>
        /\ ~hlc_last.panicked
        /\ compare(hlc_last.ts, hlc_last.remote) = "Greater"
        /\ hlc_max # NoTimestamp => compare(hlc_last.ts, hlc_max) = "Greater"

-----------------------------------------------------------------------------
(* SpecHlcThreads: threads calling now on one HybridLogicalClock, one atomic
   load, store or fetch_add of hlc/src/lib.rs:34-55 per step *)

NowGoto(t, label) == now_pc' = [now_pc EXCEPT ![t] = label]

\* thread t's call of now returns ts
NowReturn(t, ts) ==
    /\ now_ret' = [thread |-> t, ts |-> ts, before |-> now_before[t],
                   returned |-> now_returned]
    /\ now_returned' = now_returned \cup {ts}
    /\ now_local' = [now_local EXCEPT ![t] = NoLocals]
    /\ now_before' = [now_before EXCEPT ![t] = {}]
    /\ NowGoto(t, "idle")

\* now is entered: get_physical_time() and self.last_physical.load()
NowLoad(t) ==
    /\ now_pc[t] = "idle"
    /\ hlc_calls < MaxHlcCalls
    /\ hlc_calls' = hlc_calls + 1
    /\ \E physical_now \in PhysicalTimes :
          /\ now_local' = [now_local EXCEPT ![t] =
                              [physical_now |-> physical_now,
                               last_physical |-> last_physical]]
          /\ NowGoto(t, IF physical_now > last_physical
                        THEN "store_physical" ELSE "fetch_add")
    /\ now_before' = [now_before EXCEPT ![t] = now_returned]
    /\ UNCHANGED <<logical_counter, last_physical, overflow_checks, hlc_last, hlc_max,
                   now_returned, now_ret>>
    /\ UNCHANGED <<engineVars, apiVars, serverVars, metricsVars, recVars, connVars,
                   histVars, snapVars>>

\* self.last_physical.store(physical_now)
NowStorePhysical(t) ==
    /\ now_pc[t] = "store_physical"
    /\ last_physical' = now_local[t].physical_now
    /\ NowGoto(t, "store_logical")
    /\ UNCHANGED <<logical_counter, overflow_checks, hlc_last, hlc_max, hlc_calls,
                   now_local, now_before, now_returned, now_ret>>
    /\ UNCHANGED <<engineVars, apiVars, serverVars, metricsVars, recVars, connVars,
                   histVars, snapVars>>

\* self.logical_counter.store(0), and (physical_now, 0) is returned
NowStoreLogical(t) ==
    /\ now_pc[t] = "store_logical"
    /\ logical_counter' = 0
    /\ NowReturn(t, [physical |-> now_local[t].physical_now, logical |-> 0])
    /\ UNCHANGED <<last_physical, overflow_checks, hlc_last, hlc_max, hlc_calls>>
    /\ UNCHANGED <<engineVars, apiVars, serverVars, metricsVars, recVars, connVars,
                   histVars, snapVars>>

\* self.logical_counter.fetch_add(1) + 1, and (last_physical, logical) is returned
NowFetchAdd(t) ==
    /\ now_pc[t] = "fetch_add"
    /\ logical_counter' = WrappingAdd(logical_counter, 1)
    /\ NowReturn(t, [physical |-> now_local[t].last_physical,
                     logical |-> WrappingAdd(logical_counter, 1)])
    /\ UNCHANGED <<last_physical, overflow_checks, hlc_last, hlc_max, hlc_calls>>
    /\ UNCHANGED <<engineVars, apiVars, serverVars, metricsVars, recVars, connVars,
                   histVars, snapVars>>

NowStep(t) ==
    \/ NowLoad(t)
    \/ NowStorePhysical(t)
    \/ NowStoreLogical(t)
    \/ NowFetchAdd(t)

NextHlcThreads == \E t \in HlcThreads : NowStep(t)

SpecHlcThreads == Init /\ [][NextHlcThreads]_vars

\* C26: when several threads call now on one clock, under every interleaving
\* of their atomic loads and stores, no two calls return equal timestamps,
\* and a call that starts after another has returned gets a timestamp
\* strictly greater than that one's.
C26_ConcurrentNowUniqueAndOrdered ==
    now_ret.thread \in HlcThreads =>
        /\ now_ret.ts \notin now_ret.returned
        /\ \A earlier \in now_ret.before : compare(now_ret.ts, earlier) = "Greater"

====
